---------------------------- MODULE Spec2Model ----------------------------
(***************************************************************************)
(* Model of cryptonote::checkpoints (src/checkpoints/checkpoints.cpp): the *)
(* height -> hash and height -> difficulty anchor maps, the insertion      *)
(* gate add_checkpoint, the queries and the three loaders.                 *)
(*                                                                         *)
(* Strings are tuples of one-character strings, so that the conversions    *)
(* (hex_to_pod, difficulty_type(str), the "height:hash" record split) are  *)
(* computed character by character.  crypto::hash is scaled from 32 bytes  *)
(* to one byte: a well-formed hash string has two hex digits, and the      *)
(* compiled-in checkpoints keep the first byte of their hash.              *)
(***************************************************************************)
EXTENDS Integers, Sequences, FiniteSets, TLC

\* ------------------------------------------------------------------ bounds
\* greatest height offered to the operations as an input
MaxHeight == 2
\* greatest number of records in a checkpoint file or in a DNS answer
MaxRecords == 2

Heights == 0..MaxHeight
\* heights offered to the queries: one past the inputs of the insertions
QueryHeights == 0..(MaxHeight + 1)

\* ----------------------------------------------------------------- strings
HexChars == <<"0","1","2","3","4","5","6","7","8","9","a","b","c","d","e","f">>
HexCharsUpper == <<"0","1","2","3","4","5","6","7","8","9","A","B","C","D","E","F">>

IsHexChar(c) == \E i \in 1..16 : HexChars[i] = c \/ HexCharsUpper[i] = c

HexValue(c) == (CHOOSE i \in 1..16 : HexChars[i] = c \/ HexCharsUpper[i] = c) - 1

IsDigit(c) == \E i \in 1..10 : HexChars[i] = c

null_hash == 0

\* epee::string_tools::hex_to_pod: the string must have exactly two hex
\* digits per byte of the pod; both letter cases decode to the same value.
hex_to_pod(hash_str) ==
  IF Len(hash_str) = 2 /\ \A i \in 1..Len(hash_str) : IsHexChar(hash_str[i])
  THEN [r |-> TRUE, h |-> 16 * HexValue(hash_str[1]) + HexValue(hash_str[2])]
  ELSE [r |-> FALSE, h |-> null_hash]

RECURSIVE DecimalValue(_)
DecimalValue(s) ==
  IF Len(s) = 0 THEN 0
  ELSE 10 * DecimalValue(SubSeq(s, 1, Len(s) - 1)) + HexValue(s[Len(s)])

\* difficulty_type difficulty(difficulty_str): the constructor throws on a
\* string that is not a number (ok = FALSE stands for the exception).
difficulty_type(difficulty_str) ==
  IF Len(difficulty_str) > 0 /\ \A i \in 1..Len(difficulty_str) : IsDigit(difficulty_str[i])
  THEN [ok |-> TRUE, difficulty |-> DecimalValue(difficulty_str)]
  ELSE [ok |-> FALSE, difficulty |-> 0]

\* ---------------------------------------------------------------- std::map
EmptyMap == [x \in {} |-> 0]

count(m, k) == IF k \in DOMAIN m THEN 1 ELSE 0

\* m[k] = v
MapAssign(m, k, v) == [x \in (DOMAIN m) \cup {k} |-> IF x = k THEN v ELSE m[x]]

\* (--m.end())->first, m.rbegin()->first
LastKey(m) == CHOOSE k \in DOMAIN m : \A j \in DOMAIN m : j <= k

\* m.upper_bound(k): the keys strictly greater than k; the iterator is
\* end() when the set is empty and begin() when it is all of the keys.
upper_bound(m, k) == {j \in DOMAIN m : j > k}

\* ------------------------------------------------------------------ inputs
HashStrs == { <<"0","a">>, <<"0","A">>, <<"0","b">>, <<"0","g">> }

DifficultyStrs == { <<>>, <<"1">>, <<"2">>, <<"x">> }

\* the decoded hashes offered to check_block
Hashes == {hex_to_pod(s).h : s \in {t \in HashStrs : hex_to_pod(t).r}}

NetTypes == {"MAINNET", "TESTNET", "STAGENET"}

VARIABLES
  m_points,              \* std::map<uint64_t, crypto::hash>
  m_difficulty_points,   \* std::map<uint64_t, difficulty_type>
  last,                  \* the last call: its name, arguments and results
  pre_points,            \* m_points when the last call started
  pre_difficulty_points, \* m_difficulty_points when the last call started
  reload                 \* the position of a thread that loads a checkpoint file

vars == <<m_points, m_difficulty_points, last, pre_points, pre_difficulty_points, reload>>

\* ---------------------------------------------------------- add_checkpoint
\* add_checkpoint without the hash comparison: a second hash for a height
\* replaces the first
add_checkpoint_overwrite(points, difficulty_points, height, hash_str, difficulty_str) ==
  LET p == hex_to_pod(hash_str) IN
  IF ~p.r
  THEN [ret |-> FALSE, points |-> points, difficulty_points |-> difficulty_points]
  ELSE [ret |-> TRUE, points |-> MapAssign(points, height, p.h),
        difficulty_points |-> difficulty_points]

\* add_checkpoint treating every height it already has as a conflict
add_checkpoint_no_duplicates(points, difficulty_points, height, hash_str, difficulty_str) ==
  LET p == hex_to_pod(hash_str) IN
  IF ~p.r \/ count(points, height) > 0
  THEN [ret |-> FALSE, points |-> points, difficulty_points |-> difficulty_points]
  ELSE [ret |-> TRUE, points |-> MapAssign(points, height, p.h),
        difficulty_points |-> difficulty_points]

\* add_checkpoint refusing a height below the greatest one it has
add_checkpoint_append_only(points, difficulty_points, height, hash_str, difficulty_str) ==
  LET p == hex_to_pod(hash_str) IN
  IF ~p.r
  THEN [ret |-> FALSE, points |-> points, difficulty_points |-> difficulty_points]
  ELSE IF count(points, height) > 0 /\ p.h # points[height]
  THEN [ret |-> FALSE, points |-> points, difficulty_points |-> difficulty_points]
  ELSE IF DOMAIN points # {} /\ height < LastKey(points) /\ count(points, height) = 0
  THEN [ret |-> FALSE, points |-> points, difficulty_points |-> difficulty_points]
  ELSE [ret |-> TRUE, points |-> MapAssign(points, height, p.h),
        difficulty_points |-> difficulty_points]

\* add_checkpoint without the difficulty comparison: a second difficulty for
\* a height replaces the first
add_checkpoint_difficulty_overwrite(points, difficulty_points, height, hash_str, difficulty_str) ==
  LET p == hex_to_pod(hash_str)
      d == difficulty_type(difficulty_str)
  IN
  IF ~p.r
  THEN [ret |-> FALSE, points |-> points, difficulty_points |-> difficulty_points]
  ELSE IF count(points, height) > 0 /\ p.h # points[height]
  THEN [ret |-> FALSE, points |-> points, difficulty_points |-> difficulty_points]
  ELSE IF Len(difficulty_str) = 0
  THEN [ret |-> TRUE, points |-> MapAssign(points, height, p.h),
        difficulty_points |-> difficulty_points]
  ELSE IF ~d.ok
  THEN [ret |-> FALSE, points |-> MapAssign(points, height, p.h),
        difficulty_points |-> difficulty_points]
  ELSE [ret |-> TRUE, points |-> MapAssign(points, height, p.h),
        difficulty_points |-> MapAssign(difficulty_points, height, d.difficulty)]

\* add_checkpoint going on to the difficulty after a hash conflict: the
\* difficulty of a refused hash is recorded
add_checkpoint_difficulty_despite_conflict(points, difficulty_points, height, hash_str, difficulty_str) ==
  LET p == hex_to_pod(hash_str)
      d == difficulty_type(difficulty_str)
      conflict == count(points, height) > 0 /\ p.h # points[height]
      points1 == IF conflict THEN points ELSE MapAssign(points, height, p.h)
  IN
  IF ~p.r
  THEN [ret |-> FALSE, points |-> points, difficulty_points |-> difficulty_points]
  ELSE IF Len(difficulty_str) = 0
  THEN [ret |-> ~conflict, points |-> points1, difficulty_points |-> difficulty_points]
  ELSE IF ~d.ok
  THEN [ret |-> FALSE, points |-> points1, difficulty_points |-> difficulty_points]
  ELSE IF count(difficulty_points, height) > 0 /\ d.difficulty # difficulty_points[height]
  THEN [ret |-> FALSE, points |-> points1, difficulty_points |-> difficulty_points]
  ELSE [ret |-> ~conflict, points |-> points1,
        difficulty_points |-> MapAssign(difficulty_points, height, d.difficulty)]

\* add_checkpoint recording the difficulty before it decodes the hash
add_checkpoint_difficulty_before_hash(points, difficulty_points, height, hash_str, difficulty_str) ==
  LET p == hex_to_pod(hash_str)
      d == difficulty_type(difficulty_str)
      difficulty_points1 ==
        IF Len(difficulty_str) > 0 /\ d.ok /\ count(difficulty_points, height) = 0
        THEN MapAssign(difficulty_points, height, d.difficulty)
        ELSE difficulty_points
  IN
  IF ~p.r
  THEN [ret |-> FALSE, points |-> points, difficulty_points |-> difficulty_points1]
  ELSE IF count(points, height) > 0 /\ p.h # points[height]
  THEN [ret |-> FALSE, points |-> points, difficulty_points |-> difficulty_points]
  ELSE IF Len(difficulty_str) = 0
  THEN [ret |-> TRUE, points |-> MapAssign(points, height, p.h),
        difficulty_points |-> difficulty_points]
  ELSE IF ~d.ok
  THEN [ret |-> FALSE, points |-> MapAssign(points, height, p.h),
        difficulty_points |-> difficulty_points]
  ELSE IF count(difficulty_points, height) > 0 /\ d.difficulty # difficulty_points[height]
  THEN [ret |-> FALSE, points |-> MapAssign(points, height, p.h),
        difficulty_points |-> difficulty_points]
  ELSE [ret |-> TRUE, points |-> MapAssign(points, height, p.h),
        difficulty_points |-> difficulty_points1]

add_checkpoint(points, difficulty_points, height, hash_str, difficulty_str) ==
  LET p == hex_to_pod(hash_str)
      h == p.h
  IN
  IF ~p.r
  THEN [ret |-> FALSE, points |-> points, difficulty_points |-> difficulty_points]
  ELSE IF count(points, height) > 0 /\ h # points[height]
  THEN [ret |-> FALSE, points |-> points, difficulty_points |-> difficulty_points]
  ELSE
    LET points1 == MapAssign(points, height, h) IN
    IF Len(difficulty_str) = 0
    THEN [ret |-> TRUE, points |-> points1, difficulty_points |-> difficulty_points]
    ELSE
      LET d == difficulty_type(difficulty_str) IN
      IF ~d.ok
      THEN \* catch (...): m_points[height] has been assigned already
           [ret |-> FALSE, points |-> points1, difficulty_points |-> difficulty_points]
      ELSE IF count(difficulty_points, height) > 0
              /\ d.difficulty # difficulty_points[height]
      THEN [ret |-> FALSE, points |-> points1, difficulty_points |-> difficulty_points]
      ELSE [ret |-> TRUE, points |-> points1,
            difficulty_points |-> MapAssign(difficulty_points, height, d.difficulty)]

\* ----------------------------------------------------------------- queries
\* is_in_checkpoint_zone comparing with get_max_height() alone, which is 0
\* on an empty store
is_in_checkpoint_zone_no_empty_test(points, height) ==
  height <= (IF DOMAIN points = {} THEN 0 ELSE LastKey(points))

is_in_checkpoint_zone(points, height) ==
  DOMAIN points # {} /\ height <= LastKey(points)

\* check_block passing every block whatever the anchor
check_block_always_true(points, height, h) ==
  [ret |-> TRUE, is_a_checkpoint |-> height \in DOMAIN points]

check_block(points, height, h) ==
  LET is_a_checkpoint == height \in DOMAIN points IN
  IF ~is_a_checkpoint
  THEN [ret |-> TRUE, is_a_checkpoint |-> is_a_checkpoint]
  ELSE IF points[height] = h
  THEN [ret |-> TRUE, is_a_checkpoint |-> is_a_checkpoint]
  ELSE [ret |-> FALSE, is_a_checkpoint |-> is_a_checkpoint]

\* is_alternative_block_allowed with <= for <: a fork at the checkpoint
\* height itself passes
is_alternative_block_allowed_at_checkpoint(points, blockchain_height, block_height) ==
  IF 0 = block_height
  THEN FALSE
  ELSE
    LET below == {k \in DOMAIN points : k <= blockchain_height} IN
    IF below = {} THEN TRUE
    ELSE \A k \in below : k <= block_height

\* is_alternative_block_allowed without the begin() test: no checkpoint at
\* or below the chain height counts as a refusal
is_alternative_block_allowed_no_begin_test(points, blockchain_height, block_height) ==
  IF 0 = block_height
  THEN FALSE
  ELSE
    LET below == {k \in DOMAIN points : k <= blockchain_height} IN
    IF below = {} THEN FALSE
    ELSE \A k \in below : k < block_height

is_alternative_block_allowed(points, blockchain_height, block_height) ==
  IF 0 = block_height
  THEN FALSE
  ELSE
    LET it == upper_bound(points, blockchain_height) IN
    IF it = DOMAIN points       \* it == m_points.begin()
    THEN TRUE
    ELSE
      \* --it: the greatest key that is not in the upper range
      LET checkpoint_height ==
            CHOOSE k \in (DOMAIN points) \ it : \A j \in (DOMAIN points) \ it : j <= k
      IN checkpoint_height < block_height

get_max_height(points) ==
  IF DOMAIN points = {} THEN 0 ELSE LastKey(points)

\* the keys of a map in iteration (ascending) order
RECURSIVE KeysInOrder(_)
KeysInOrder(S) ==
  IF S = {} THEN <<>>
  ELSE LET k == CHOOSE x \in S : \A y \in S : x <= y
       IN <<k>> \o KeysInOrder(S \ {k})

RECURSIVE check_for_conflicts_from(_, _, _, _)
check_for_conflicts_from(points, other, keys, i) ==
  IF i > Len(keys) THEN TRUE
  ELSE IF count(points, keys[i]) > 0 /\ other[keys[i]] # points[keys[i]]
  THEN FALSE
  ELSE check_for_conflicts_from(points, other, keys, i + 1)

\* check_for_conflicts comparing the first anchor of other only
check_for_conflicts_first_only(points, other) ==
  LET keys == KeysInOrder(DOMAIN other) IN
  IF Len(keys) = 0 THEN TRUE
  ELSE ~(count(points, keys[1]) > 0 /\ other[keys[1]] # points[keys[1]])

\* check_for_conflicts counting a height this store does not have as a
\* conflict
check_for_conflicts_missing_is_conflict(points, other) ==
  \A k \in DOMAIN other : count(points, k) > 0 /\ other[k] = points[k]

check_for_conflicts(points, other) ==
  check_for_conflicts_from(points, other, KeysInOrder(DOMAIN other), 1)

\* ----------------------------------------------------------------- loaders
\* ADD_CHECKPOINT(h, hash): add_checkpoint with the default (empty)
\* difficulty_str; the enclosing loader returns false when it fails.
ADD_CHECKPOINT(points, difficulty_points, h, hash) ==
  add_checkpoint(points, difficulty_points, h, hash, <<>>)

\* the compiled-in checkpoints of the main network, in source order
DefaultCheckpoints == <<
    <<1, <<"7","b">>>>, <<10, <<"7","f">>>>, <<100, <<"b","9">>>>,
    <<500, <<"4","1">>>>, <<1000, <<"f","7">>>>, <<2000, <<"a","7">>>>,
    <<3000, <<"0","d">>>>, <<4000, <<"d","6">>>>, <<5000, <<"4","5">>>>,
    <<5353, <<"e","9">>>>, <<5500, <<"5","8">>>>, <<5544, <<"9","6">>>>,
    <<6000, <<"5","0">>>>, <<6500, <<"f","2">>>>, <<7000, <<"5","2">>>>,
    <<8000, <<"e","e">>>>, <<9500, <<"b","6">>>>, <<10000, <<"9","2">>>>,
    <<12000, <<"6","3">>>>, <<15622, <<"1","8">>>>, <<20000, <<"5","5">>>>,
    <<32139, <<"b","6">>>>, <<39638, <<"e","8">>>>, <<226000, <<"d","4">>>>,
    <<263664, <<"3","e">>>>, <<300000, <<"8","c">>>>, <<325000, <<"b","c">>>>,
    <<333000, <<"b","4">>>>, <<400000, <<"5","e">>>>, <<410500, <<"7","d">>>>,
    <<425500, <<"a","4">>>>, <<435000, <<"b","2">>>>, <<450555, <<"f","f">>>>,
    <<465000, <<"0","a">>>>, <<469666, <<"b","5">>>>, <<475000, <<"a","3">>>>,
    <<476483, <<"8","d">>>>, <<478778, <<"7","7">>>>, <<478865, <<"d","0">>>>
  >>

\* a run of ADD_CHECKPOINT statements over lines[i..]: the first failing one
\* returns false from the function, the later ones are not executed
RECURSIVE add_checkpoint_lines(_, _, _, _)
add_checkpoint_lines(points, difficulty_points, lines, i) ==
  IF i > Len(lines)
  THEN [ret |-> TRUE, points |-> points, difficulty_points |-> difficulty_points]
  ELSE
    LET res == ADD_CHECKPOINT(points, difficulty_points, lines[i][1], lines[i][2]) IN
    IF ~res.ret
    THEN [ret |-> FALSE, points |-> res.points, difficulty_points |-> res.difficulty_points]
    ELSE add_checkpoint_lines(res.points, res.difficulty_points, lines, i + 1)

init_default_checkpoints(points, difficulty_points, nettype) ==
  IF nettype = "TESTNET"
  THEN [ret |-> TRUE, points |-> points, difficulty_points |-> difficulty_points]
  ELSE IF nettype = "STAGENET"
  THEN [ret |-> TRUE, points |-> points, difficulty_points |-> difficulty_points]
  ELSE add_checkpoint_lines(points, difficulty_points, DefaultCheckpoints, 1)

\* the loop over hashes.hashlines; a hashline is <<height, hash>>
RECURSIVE load_checkpoints_from_json_loop(_, _, _, _, _)
load_checkpoints_from_json_loop(points, difficulty_points, hashlines, it, prev_max_height) ==
  IF it > Len(hashlines)
  THEN [ret |-> TRUE, points |-> points, difficulty_points |-> difficulty_points]
  ELSE
    LET height == hashlines[it][1] IN
    IF height <= prev_max_height
    THEN load_checkpoints_from_json_loop(points, difficulty_points, hashlines, it + 1,
                                         prev_max_height)
    ELSE
      LET blockhash == hashlines[it][2]
          res == ADD_CHECKPOINT(points, difficulty_points, height, blockhash)
      IN
      IF ~res.ret
      THEN [ret |-> FALSE, points |-> res.points, difficulty_points |-> res.difficulty_points]
      ELSE load_checkpoints_from_json_loop(res.points, res.difficulty_points, hashlines,
                                           it + 1, prev_max_height)

\* load_checkpoints_from_json reading get_max_height() again at every
\* record instead of once before the loop
RECURSIVE load_checkpoints_from_json_moving_loop(_, _, _, _)
load_checkpoints_from_json_moving_loop(points, difficulty_points, hashlines, it) ==
  IF it > Len(hashlines)
  THEN [ret |-> TRUE, points |-> points, difficulty_points |-> difficulty_points]
  ELSE
    LET height == hashlines[it][1] IN
    IF height <= get_max_height(points)
    THEN load_checkpoints_from_json_moving_loop(points, difficulty_points, hashlines, it + 1)
    ELSE
      LET res == ADD_CHECKPOINT(points, difficulty_points, height, hashlines[it][2]) IN
      IF ~res.ret
      THEN [ret |-> FALSE, points |-> res.points, difficulty_points |-> res.difficulty_points]
      ELSE load_checkpoints_from_json_moving_loop(res.points, res.difficulty_points,
                                                  hashlines, it + 1)

load_checkpoints_from_json_moving_watermark(points, difficulty_points, file) ==
  IF ~file.exists
  THEN [ret |-> TRUE, points |-> points, difficulty_points |-> difficulty_points]
  ELSE IF ~file.loads
  THEN [ret |-> FALSE, points |-> points, difficulty_points |-> difficulty_points]
  ELSE load_checkpoints_from_json_moving_loop(points, difficulty_points, file.hashlines, 1)

\* load_checkpoints_from_json reporting a missing file as a failure
load_checkpoints_from_json_missing_fails(points, difficulty_points, file) ==
  IF ~file.exists
  THEN [ret |-> FALSE, points |-> points, difficulty_points |-> difficulty_points]
  ELSE IF ~file.loads
  THEN [ret |-> FALSE, points |-> points, difficulty_points |-> difficulty_points]
  ELSE load_checkpoints_from_json_loop(points, difficulty_points, file.hashlines, 1,
                                       get_max_height(points))

\* file: [exists, loads, hashlines]; exists is boost::filesystem::exists,
\* loads is the result of load_t_from_json_file
load_checkpoints_from_json(points, difficulty_points, file) ==
  IF ~file.exists
  THEN [ret |-> TRUE, points |-> points, difficulty_points |-> difficulty_points]
  ELSE
    LET prev_max_height == get_max_height(points) IN
    IF ~file.loads
    THEN [ret |-> FALSE, points |-> points, difficulty_points |-> difficulty_points]
    ELSE load_checkpoints_from_json_loop(points, difficulty_points, file.hashlines, 1,
                                         prev_max_height)

dns_urls == <<>>
testnet_dns_urls == <<>>
stagenet_dns_urls == <<"stagenetpoints1.dinastycoin.com", "stagenetpoints2.dinastycoin.com",
                       "stagenetpoints3.dinastycoin.com", "stagenetpoints4.dinastycoin.com">>

\* the url list handed to load_txt_records_from_dns
SelectedUrls(nettype) ==
  IF nettype = "TESTNET" THEN testnet_dns_urls
  ELSE IF nettype = "STAGENET" THEN stagenet_dns_urls
  ELSE dns_urls

\* record.find(":"): the first position of a colon, 0 for npos
find_colon(record) ==
  IF \E i \in 1..Len(record) : record[i] = ":"
  THEN CHOOSE i \in 1..Len(record) : record[i] = ":" /\ \A j \in 1..(i - 1) : record[j] # ":"
  ELSE 0

\* ss >> height on a std::stringstream: reads the leading decimal digits and
\* fails when there is none (signs, blanks and overflow are not among the
\* records offered)
ParseHeight(s) ==
  LET n == IF \E i \in 1..Len(s) : ~IsDigit(s[i])
           THEN (CHOOSE i \in 1..Len(s) : ~IsDigit(s[i]) /\ \A j \in 1..(i - 1) : IsDigit(s[j])) - 1
           ELSE Len(s)
  IN IF n = 0 THEN [ok |-> FALSE, height |-> 0]
     ELSE [ok |-> TRUE, height |-> DecimalValue(SubSeq(s, 1, n))]

RECURSIVE load_checkpoints_from_dns_loop(_, _, _, _)
load_checkpoints_from_dns_loop(points, difficulty_points, records, i) ==
  IF i > Len(records)
  THEN [ret |-> TRUE, points |-> points, difficulty_points |-> difficulty_points]
  ELSE
    LET record == records[i]
        pos == find_colon(record)
    IN
    IF pos = 0
    THEN load_checkpoints_from_dns_loop(points, difficulty_points, records, i + 1)
    ELSE
      LET ph == ParseHeight(SubSeq(record, 1, pos - 1))
          hashStr == SubSeq(record, pos + 1, Len(record))
      IN
      IF ~ph.ok
      THEN load_checkpoints_from_dns_loop(points, difficulty_points, records, i + 1)
      ELSE IF ~hex_to_pod(hashStr).r
      THEN load_checkpoints_from_dns_loop(points, difficulty_points, records, i + 1)
      ELSE
        LET res == ADD_CHECKPOINT(points, difficulty_points, ph.height, hashStr) IN
        IF ~res.ret
        THEN [ret |-> FALSE, points |-> res.points,
              difficulty_points |-> res.difficulty_points]
        ELSE load_checkpoints_from_dns_loop(res.points, res.difficulty_points, records, i + 1)

\* load_checkpoints_from_dns giving up the batch at a malformed record
RECURSIVE load_checkpoints_from_dns_strict_loop(_, _, _, _)
load_checkpoints_from_dns_strict_loop(points, difficulty_points, records, i) ==
  IF i > Len(records)
  THEN [ret |-> TRUE, points |-> points, difficulty_points |-> difficulty_points]
  ELSE
    LET record == records[i]
        pos == find_colon(record)
        ph == ParseHeight(SubSeq(record, 1, pos - 1))
        hashStr == SubSeq(record, pos + 1, Len(record))
    IN
    IF pos = 0 \/ ~ph.ok \/ ~hex_to_pod(hashStr).r
    THEN [ret |-> FALSE, points |-> points, difficulty_points |-> difficulty_points]
    ELSE
      LET res == ADD_CHECKPOINT(points, difficulty_points, ph.height, hashStr) IN
      IF ~res.ret
      THEN [ret |-> FALSE, points |-> res.points, difficulty_points |-> res.difficulty_points]
      ELSE load_checkpoints_from_dns_strict_loop(res.points, res.difficulty_points,
                                                 records, i + 1)

load_checkpoints_from_dns_strict(points, difficulty_points, nettype, answer) ==
  IF ~answer.ok
  THEN [ret |-> TRUE, points |-> points, difficulty_points |-> difficulty_points]
  ELSE load_checkpoints_from_dns_strict_loop(points, difficulty_points, answer.records, 1)

\* load_checkpoints_from_dns going on after a record that add_checkpoint
\* refused, the refusal kept for the result
RECURSIVE load_checkpoints_from_dns_continue_loop(_, _, _, _, _)
load_checkpoints_from_dns_continue_loop(points, difficulty_points, records, i, result) ==
  IF i > Len(records)
  THEN [ret |-> result, points |-> points, difficulty_points |-> difficulty_points]
  ELSE
    LET record == records[i]
        pos == find_colon(record)
        ph == ParseHeight(SubSeq(record, 1, pos - 1))
        hashStr == SubSeq(record, pos + 1, Len(record))
    IN
    IF pos = 0 \/ ~ph.ok \/ ~hex_to_pod(hashStr).r
    THEN load_checkpoints_from_dns_continue_loop(points, difficulty_points, records, i + 1,
                                                 result)
    ELSE
      LET res == ADD_CHECKPOINT(points, difficulty_points, ph.height, hashStr) IN
      load_checkpoints_from_dns_continue_loop(res.points, res.difficulty_points, records,
                                              i + 1, result /\ res.ret)

load_checkpoints_from_dns_continue(points, difficulty_points, nettype, answer) ==
  IF ~answer.ok
  THEN [ret |-> TRUE, points |-> points, difficulty_points |-> difficulty_points]
  ELSE load_checkpoints_from_dns_continue_loop(points, difficulty_points, answer.records,
                                               1, TRUE)

\* answer: [ok, records], what load_txt_records_from_dns gives for the
\* selected url list
load_checkpoints_from_dns(points, difficulty_points, nettype, answer) ==
  IF ~answer.ok
  THEN [ret |-> TRUE, points |-> points, difficulty_points |-> difficulty_points]
  ELSE load_checkpoints_from_dns_loop(points, difficulty_points, answer.records, 1)

\* load_new_checkpoints with && for &=: no DNS stage after a failed file stage
load_new_checkpoints_short_circuit(points, difficulty_points, file, nettype, dns, answer) ==
  LET r1 == load_checkpoints_from_json(points, difficulty_points, file) IN
  IF dns /\ r1.ret
  THEN load_checkpoints_from_dns(r1.points, r1.difficulty_points, nettype, answer)
  ELSE r1

load_new_checkpoints(points, difficulty_points, file, nettype, dns, answer) ==
  LET r1 == load_checkpoints_from_json(points, difficulty_points, file) IN
  IF dns
  THEN LET r2 == load_checkpoints_from_dns(r1.points, r1.difficulty_points, nettype, answer)
       IN [ret |-> r1.ret /\ r2.ret, points |-> r2.points,
           difficulty_points |-> r2.difficulty_points]
  ELSE r1

\* ----------------------------------------------------------- loader inputs
\* all sequences of at most n elements of S
RECURSIVE SeqsUpTo(_, _)
SeqsUpTo(S, n) ==
  IF n = 0 THEN {<<>>}
  ELSE LET shorter == SeqsUpTo(S, n - 1)
       IN shorter \cup {Append(s, x) : s \in shorter, x \in S}

RECURSIVE DecimalString(_)
DecimalString(n) ==
  IF n < 10 THEN <<HexChars[n + 1]>>
  ELSE DecimalString(n \div 10) \o <<HexChars[(n % 10) + 1]>>

\* the hashlines a checkpoint file may hold: two hashes for every input
\* height, and one hashline whose hash is not hex
JsonHashlines ==
  (Heights \X { <<"0","a">>, <<"0","b">> }) \cup { <<1, <<"0","g">>>> }

JsonFilesOf(n) ==
  {[exists |-> FALSE, loads |-> FALSE, hashlines |-> <<>>],
   [exists |-> TRUE, loads |-> FALSE, hashlines |-> <<>>]}
  \cup {[exists |-> TRUE, loads |-> TRUE, hashlines |-> hl] : hl \in SeqsUpTo(JsonHashlines, n)}

JsonFiles == JsonFilesOf(MaxRecords)

\* the TXT records an answer may hold: "height:hash" for the input heights,
\* a record without a colon, one whose height does not parse and one whose
\* hash is not hex
DnsRecords ==
  {DecimalString(h) \o <<":">> \o s : h \in Heights, s \in { <<"0","a">>, <<"0","b">> }}
  \cup { <<"0","a">>, <<"x",":","0","a">>, <<"1",":","0","g">> }

\* no url, no record: only a non-empty url list can yield records
DnsAnswersOf(nettype, n) ==
  {[ok |-> FALSE, records |-> <<>>]}
  \cup (IF Len(SelectedUrls(nettype)) = 0 THEN {}
        ELSE {[ok |-> TRUE, records |-> rs] : rs \in SeqsUpTo(DnsRecords, n)})

DnsAnswers(nettype) == DnsAnswersOf(nettype, MaxRecords)

\* ------------------------------------------------------------------- state
\* no call in progress: a call starts when the previous one has returned
Idle == [op |-> "none"]

\* no thread is inside load_checkpoints_from_json
NoReload == [pc |-> "none"]

Init ==
  /\ m_points = EmptyMap
  /\ m_difficulty_points = EmptyMap
  /\ last = Idle
  /\ pre_points = EmptyMap
  /\ pre_difficulty_points = EmptyMap
  /\ reload = NoReload

\* the store as the call found it is kept beside the result
Remember ==
  /\ pre_points' = m_points
  /\ pre_difficulty_points' = m_difficulty_points
  /\ reload' = reload

AddCheckpoint ==
  /\ last = Idle
  /\ \E height \in Heights, hash_str \in HashStrs, difficulty_str \in DifficultyStrs :
    LET res == add_checkpoint(m_points, m_difficulty_points, height, hash_str, difficulty_str) IN
    /\ m_points' = res.points
    /\ m_difficulty_points' = res.difficulty_points
    /\ last' = [op |-> "add_checkpoint", height |-> height, hash_str |-> hash_str,
                difficulty_str |-> difficulty_str, ret |-> res.ret]
    /\ Remember

IsInCheckpointZone ==
  /\ last = Idle
  /\ \E height \in QueryHeights :
    /\ last' = [op |-> "is_in_checkpoint_zone", height |-> height,
                ret |-> is_in_checkpoint_zone(m_points, height)]
    /\ Remember
    /\ UNCHANGED <<m_points, m_difficulty_points>>

CheckBlock ==
  /\ last = Idle
  /\ \E height \in QueryHeights, h \in Hashes :
    LET res == check_block(m_points, height, h) IN
    /\ last' = [op |-> "check_block", height |-> height, h |-> h,
                ret |-> res.ret, is_a_checkpoint |-> res.is_a_checkpoint]
    /\ Remember
    /\ UNCHANGED <<m_points, m_difficulty_points>>

IsAlternativeBlockAllowed ==
  /\ last = Idle
  /\ \E blockchain_height \in QueryHeights, block_height \in QueryHeights :
    /\ last' = [op |-> "is_alternative_block_allowed",
                blockchain_height |-> blockchain_height, block_height |-> block_height,
                ret |-> is_alternative_block_allowed(m_points, blockchain_height, block_height)]
    /\ Remember
    /\ UNCHANGED <<m_points, m_difficulty_points>>

GetMaxHeight ==
  /\ last = Idle
  /\ last' = [op |-> "get_max_height", ret |-> get_max_height(m_points)]
  /\ Remember
  /\ UNCHANGED <<m_points, m_difficulty_points>>

\* the hash anchors of the other store of check_for_conflicts
OtherPoints == UNION {[D -> Hashes] : D \in SUBSET Heights}

CheckForConflicts ==
  /\ last = Idle
  /\ \E other \in OtherPoints :
    /\ last' = [op |-> "check_for_conflicts", other |-> other,
                ret |-> check_for_conflicts(m_points, other)]
    /\ Remember
    /\ UNCHANGED <<m_points, m_difficulty_points>>

\* the two-argument call add_checkpoint(height, hash_str): difficulty_str
\* takes its default, the empty string
AddCheckpointHash ==
  /\ last = Idle
  /\ \E height \in Heights, hash_str \in HashStrs :
    LET res == add_checkpoint(m_points, m_difficulty_points, height, hash_str, <<>>) IN
    /\ m_points' = res.points
    /\ m_difficulty_points' = res.difficulty_points
    /\ last' = [op |-> "add_checkpoint", height |-> height, hash_str |-> hash_str,
                difficulty_str |-> <<>>, ret |-> res.ret]
    /\ Remember

InitDefaultCheckpoints ==
  /\ last = Idle
  /\ \E nettype \in NetTypes :
    LET res == init_default_checkpoints(m_points, m_difficulty_points, nettype) IN
    /\ m_points' = res.points
    /\ m_difficulty_points' = res.difficulty_points
    /\ last' = [op |-> "init_default_checkpoints", nettype |-> nettype, ret |-> res.ret]
    /\ Remember

LoadCheckpointsFromJson ==
  /\ last = Idle
  /\ \E file \in JsonFiles :
    LET res == load_checkpoints_from_json(m_points, m_difficulty_points, file) IN
    /\ m_points' = res.points
    /\ m_difficulty_points' = res.difficulty_points
    /\ last' = [op |-> "load_checkpoints_from_json", file |-> file, ret |-> res.ret]
    /\ Remember

LoadCheckpointsFromDns ==
  /\ last = Idle
  /\ \E nettype \in NetTypes :
    \E answer \in DnsAnswers(nettype) :
      LET res == load_checkpoints_from_dns(m_points, m_difficulty_points, nettype, answer) IN
      /\ m_points' = res.points
      /\ m_difficulty_points' = res.difficulty_points
      /\ last' = [op |-> "load_checkpoints_from_dns", nettype |-> nettype,
                  answer |-> answer, ret |-> res.ret]
      /\ Remember

\* the two stages composed; one record per stage is enough to order them
LoadNewCheckpoints ==
  /\ last = Idle
  /\ \E file \in JsonFilesOf(1), nettype \in NetTypes, dns \in BOOLEAN :
    \E answer \in DnsAnswersOf(nettype, 1) :
      LET res == load_new_checkpoints(m_points, m_difficulty_points, file, nettype, dns, answer)
      IN
      /\ m_points' = res.points
      /\ m_difficulty_points' = res.difficulty_points
      /\ last' = [op |-> "load_new_checkpoints", file |-> file, nettype |-> nettype,
                  dns |-> dns, answer |-> answer, ret |-> res.ret]
      /\ Remember

\* the caller takes the result of the call
Return ==
  /\ last # Idle
  /\ last' = Idle
  /\ pre_points' = m_points
  /\ pre_difficulty_points' = m_difficulty_points
  /\ UNCHANGED <<m_points, m_difficulty_points, reload>>

\* the store and its queries, add_checkpoint with every form of difficulty
Next ==
  \/ AddCheckpoint
  \/ IsInCheckpointZone
  \/ CheckBlock
  \/ IsAlternativeBlockAllowed
  \/ GetMaxHeight
  \/ CheckForConflicts
  \/ InitDefaultCheckpoints
  \/ Return

Spec == Init /\ [][Next]_vars

\* the loaders over the store: every operation that inserts, with
\* add_checkpoint in the two-argument form the loaders use
NextLoad ==
  \/ AddCheckpointHash
  \/ InitDefaultCheckpoints
  \/ LoadCheckpointsFromJson
  \/ LoadCheckpointsFromDns
  \/ LoadNewCheckpoints
  \/ CheckForConflicts
  \/ Return

SpecLoad == Init /\ [][NextLoad]_vars

\* ---- a reload in one thread, the queries in another ----
\* The functions take no lock, so the steps of the two threads interleave
\* freely.  The reloading thread is followed through
\* load_checkpoints_from_json: reload.pc is "loop" at the head of the for
\* loop and "insert" while add_checkpoint assigns m_points[height].

\* load_new_checkpoints enters load_checkpoints_from_json: the file is
\* tested and read, get_max_height() is taken once
ReloadBegin ==
  /\ reload = NoReload
  /\ \E file \in JsonFilesOf(1) :
       reload' = IF file.exists /\ file.loads
                 THEN [pc |-> "loop", hashlines |-> file.hashlines, it |-> 1,
                       prev_max_height |-> get_max_height(m_points)]
                 ELSE NoReload
  /\ UNCHANGED <<m_points, m_difficulty_points, last, pre_points, pre_difficulty_points>>

\* the head of one iteration: the end of the hashlines, a height that is
\* skipped, a hashline add_checkpoint refuses, or the entry into the
\* assignment of m_points[height]
ReloadNext ==
  /\ reload.pc = "loop"
  /\ reload' =
       IF reload.it > Len(reload.hashlines) THEN NoReload
       ELSE LET height == reload.hashlines[reload.it][1]
                res == ADD_CHECKPOINT(m_points, m_difficulty_points, height,
                                      reload.hashlines[reload.it][2])
            IN IF height <= reload.prev_max_height
               THEN [reload EXCEPT !.it = reload.it + 1]
               ELSE IF ~res.ret THEN NoReload
               ELSE [pc |-> "insert", hashlines |-> reload.hashlines, it |-> reload.it,
                     prev_max_height |-> reload.prev_max_height]
  /\ UNCHANGED <<m_points, m_difficulty_points, last, pre_points, pre_difficulty_points>>

\* the store when the assignment in progress is complete
AfterInsert ==
  ADD_CHECKPOINT(m_points, m_difficulty_points, reload.hashlines[reload.it][1],
                 reload.hashlines[reload.it][2])

\* m_points[height] = h completes and the loop goes to the next hashline
ReloadInsert ==
  /\ reload.pc = "insert"
  /\ m_points' = AfterInsert.points
  /\ m_difficulty_points' = AfterInsert.difficulty_points
  /\ reload' = [pc |-> "loop", hashlines |-> reload.hashlines, it |-> reload.it + 1,
                prev_max_height |-> reload.prev_max_height]
  /\ UNCHANGED <<last, pre_points, pre_difficulty_points>>

\* what a query can read of m_points: the map itself, and, while another
\* thread is assigning to it, also the map with the assignment done (the
\* read races with the write, either order of the two can be observed)
SeenPoints ==
  IF reload.pc = "insert" THEN {m_points, AfterInsert.points} ELSE {m_points}

ConcurrentIsInCheckpointZone ==
  /\ last = Idle
  /\ \E height \in QueryHeights, seen \in SeenPoints :
    /\ last' = [op |-> "is_in_checkpoint_zone", height |-> height,
                ret |-> is_in_checkpoint_zone(seen, height), reload_pc |-> reload.pc]
    /\ Remember
    /\ UNCHANGED <<m_points, m_difficulty_points>>

ConcurrentCheckBlock ==
  /\ last = Idle
  /\ \E height \in QueryHeights, h \in Hashes, seen \in SeenPoints :
    LET res == check_block(seen, height, h) IN
    /\ last' = [op |-> "check_block", height |-> height, h |-> h,
                ret |-> res.ret, is_a_checkpoint |-> res.is_a_checkpoint,
                reload_pc |-> reload.pc]
    /\ Remember
    /\ UNCHANGED <<m_points, m_difficulty_points>>

ConcurrentIsAlternativeBlockAllowed ==
  /\ last = Idle
  /\ \E blockchain_height \in QueryHeights, block_height \in QueryHeights,
        seen \in SeenPoints :
    /\ last' = [op |-> "is_alternative_block_allowed",
                blockchain_height |-> blockchain_height, block_height |-> block_height,
                ret |-> is_alternative_block_allowed(seen, blockchain_height, block_height),
                reload_pc |-> reload.pc]
    /\ Remember
    /\ UNCHANGED <<m_points, m_difficulty_points>>

ConcurrentGetMaxHeight ==
  /\ last = Idle
  /\ \E seen \in SeenPoints :
    /\ last' = [op |-> "get_max_height", ret |-> get_max_height(seen),
                reload_pc |-> reload.pc]
    /\ Remember
    /\ UNCHANGED <<m_points, m_difficulty_points>>

NextConcurrent ==
  \/ ReloadBegin
  \/ ReloadNext
  \/ ReloadInsert
  \/ ConcurrentIsInCheckpointZone
  \/ ConcurrentCheckBlock
  \/ ConcurrentIsAlternativeBlockAllowed
  \/ ConcurrentGetMaxHeight
  \/ Return

SpecConcurrent == Init /\ [][NextConcurrent]_vars

\* ------------------------------------------------------------------ claims
\* the hash a well-formed hash string of the last call decodes to
LastHash == hex_to_pod(last.hash_str).h

StoreUnchanged ==
  /\ m_points = pre_points
  /\ m_difficulty_points = pre_difficulty_points

\* the last call was add_checkpoint with a well-formed hash for a height
\* whose anchor holds another hash
HashConflictCall ==
  /\ last.op = "add_checkpoint"
  /\ hex_to_pod(last.hash_str).r
  /\ last.height \in DOMAIN pre_points
  /\ pre_points[last.height] # LastHash

\* C1: add_checkpoint for a height that already has a hash anchor, with a
\* different well-formed hash, returns false and leaves m_points and
\* m_difficulty_points as they were; check_block at that height still
\* matches the original hash and no other.
C1_ConflictLeavesStore ==
  HashConflictCall =>
    /\ last.ret = FALSE
    /\ StoreUnchanged
    /\ \A h \in Hashes \cup {pre_points[last.height]} :
         check_block(m_points, last.height, h).ret <=> (h = pre_points[last.height])

C1_Witness ==
  /\ HashConflictCall
  /\ last.ret = FALSE

\* C2: in every step of every operation, each height that maps to a hash in
\* m_points maps to the same hash afterwards: an accepted anchor is never
\* removed and never overwritten.
C2_AnchorsKept ==
  [][\A h \in DOMAIN m_points : h \in DOMAIN m_points' /\ m_points'[h] = m_points[h]]_vars

\* a loader met a record for an anchored height with another hash, and the
\* anchor is still there
C2_Witness ==
  /\ last.op \in {"load_checkpoints_from_dns", "load_new_checkpoints"}
  /\ last.ret = FALSE
  /\ pre_points # EmptyMap
  /\ \A h \in DOMAIN pre_points : h \in DOMAIN m_points /\ m_points[h] = pre_points[h]

\* the checkpoints of the example: heights 100 and 500
ExamplePoints == (100 :> 10) @@ (500 :> 11)

\* C3: is_alternative_block_allowed is false for block_height 0; otherwise,
\* when some checkpoint height is <= blockchain_height, it is true exactly
\* when block_height is greater than every such height (a fork at the
\* greatest of them is refused).  With checkpoints {100, 500}: (50,10) true,
\* (600,90) false, (600,500) false, (600,501) true.
C3_AlternativeBlockRule ==
  /\ last.op = "is_alternative_block_allowed" =>
       LET passed == {k \in DOMAIN m_points : k <= last.blockchain_height} IN
       /\ last.block_height = 0 => last.ret = FALSE
       /\ (last.block_height # 0 /\ passed # {}) =>
            (last.ret <=> \A k \in passed : k < last.block_height)
  /\ is_alternative_block_allowed(ExamplePoints, 50, 10) = TRUE
  /\ is_alternative_block_allowed(ExamplePoints, 600, 90) = FALSE
  /\ is_alternative_block_allowed(ExamplePoints, 600, 500) = FALSE
  /\ is_alternative_block_allowed(ExamplePoints, 600, 501) = TRUE

\* a fork exactly at the last checkpoint the chain has passed
C3_Witness ==
  /\ last.op = "is_alternative_block_allowed"
  /\ last.block_height \in DOMAIN m_points
  /\ last.block_height # 0
  /\ last.block_height <= last.blockchain_height
  /\ \A k \in DOMAIN m_points : k <= last.blockchain_height => k <= last.block_height
  /\ last.ret = FALSE

\* C4 as stated: for a non-zero block_height the call is true (1) when no
\* checkpoint height is greater than blockchain_height and (2) when
\* blockchain_height is below the lowest checkpoint height.
C4_AllowedWhenNoneAbove ==
  (/\ last.op = "is_alternative_block_allowed"
   /\ last.block_height # 0
   /\ \/ \A k \in DOMAIN m_points : ~(k > last.blockchain_height)
      \/ \A k \in DOMAIN m_points : last.blockchain_height < k)
  => last.ret = TRUE

\* C4 amended: for a non-zero block_height the call is true (1) when no
\* checkpoint height is greater than blockchain_height and block_height is
\* greater than every checkpoint height of the store (the empty store
\* included), and (2) when blockchain_height is below the lowest checkpoint
\* height.
C4_AllowedBeforeFirstOrAfterLast ==
  (/\ last.op = "is_alternative_block_allowed"
   /\ last.block_height # 0
   /\ \/ /\ \A k \in DOMAIN m_points : ~(k > last.blockchain_height)
         /\ \A k \in DOMAIN m_points : k < last.block_height
      \/ \A k \in DOMAIN m_points : last.blockchain_height < k)
  => last.ret = TRUE

\* the chain is below the first checkpoint of a store that has one
C4_Witness ==
  /\ last.op = "is_alternative_block_allowed"
  /\ last.block_height # 0
  /\ m_points # EmptyMap
  /\ \A k \in DOMAIN m_points : last.blockchain_height < k
  /\ last.ret = TRUE

\* C5: check_block answers three ways: no anchor at the height gives true
\* with is_a_checkpoint false whatever the hash; an anchor equal to the hash
\* gives true with is_a_checkpoint true; an anchor different from the hash
\* gives false with is_a_checkpoint true.  The store is not changed.
C5_CheckBlockThreeWay ==
  last.op = "check_block" =>
    /\ last.height \notin DOMAIN pre_points =>
         (last.ret = TRUE /\ last.is_a_checkpoint = FALSE)
    /\ (last.height \in DOMAIN pre_points /\ pre_points[last.height] = last.h) =>
         (last.ret = TRUE /\ last.is_a_checkpoint = TRUE)
    /\ (last.height \in DOMAIN pre_points /\ pre_points[last.height] # last.h) =>
         (last.ret = FALSE /\ last.is_a_checkpoint = TRUE)
    /\ StoreUnchanged

C5_Witness ==
  /\ last.op = "check_block"
  /\ last.height \in DOMAIN pre_points
  /\ pre_points[last.height] # last.h
  /\ last.ret = FALSE
  /\ last.is_a_checkpoint = TRUE

\* C6: for every height h, is_in_checkpoint_zone(h) is true exactly when
\* m_points is non-empty and h is at most its greatest key; on the empty
\* store it is false for every h, h = 0 included, where get_max_height() is 0.
C6_CheckpointZone ==
  /\ last = Idle =>
       \A h \in QueryHeights \cup DOMAIN m_points \cup {get_max_height(m_points) + 1} :
         is_in_checkpoint_zone(m_points, h) <=> (\E k \in DOMAIN m_points : h <= k)
  /\ last.op = "is_in_checkpoint_zone" =>
       (last.ret <=> (\E k \in DOMAIN m_points : last.height <= k))
  /\ m_points = EmptyMap =>
       /\ get_max_height(m_points) = 0
       /\ \A h \in QueryHeights : ~is_in_checkpoint_zone(m_points, h)

\* height 0 asked of the empty store
C6_Witness ==
  /\ last.op = "is_in_checkpoint_zone"
  /\ m_points = EmptyMap
  /\ last.height = 0
  /\ last.ret = FALSE

\* the heights of other that disagree with the store the call found
ConflictsOfLast ==
  {h \in DOMAIN last.other : h \in DOMAIN pre_points /\ last.other[h] # pre_points[h]}

\* C7 as stated: check_for_conflicts(other) inserts the anchors of other:
\* those before the first disagreeing height are in this store afterwards, a
\* disagreeing height keeps this store's hash, and the call returns false
\* when there is a disagreeing height.
C7_MergeInserts ==
  last.op = "check_for_conflicts" =>
    /\ \A h \in DOMAIN last.other :
         (\A c \in ConflictsOfLast : h < c) =>
           (h \in DOMAIN m_points /\ m_points[h] = last.other[h])
    /\ \A c \in ConflictsOfLast : m_points[c] = pre_points[c]
    /\ last.ret = (ConflictsOfLast = {})

\* C7 amended: check_for_conflicts(other) compares every hash anchor of
\* other with this store and inserts nothing: this store is the same before
\* and after (a disagreeing height keeps this store's hash, a height only
\* in other is not added), and the call returns false when there is a
\* disagreeing height, true otherwise.
C7_CheckOnly ==
  last.op = "check_for_conflicts" =>
    /\ StoreUnchanged
    /\ \A c \in ConflictsOfLast : m_points[c] = pre_points[c]
    /\ \A h \in (DOMAIN last.other) \ (DOMAIN pre_points) : h \notin DOMAIN m_points
    /\ last.ret = (ConflictsOfLast = {})

\* other agrees at one height, disagrees at a greater one and has a new one
C7_Witness ==
  /\ last.op = "check_for_conflicts"
  /\ last.ret = FALSE
  /\ \E a \in DOMAIN last.other, c \in ConflictsOfLast :
       a < c /\ a \in DOMAIN pre_points /\ last.other[a] = pre_points[a]
  /\ (DOMAIN last.other) \ (DOMAIN pre_points) # {}

\* the last call was add_checkpoint with what the store holds at the height:
\* the stored hash and no difficulty, or the stored hash and the stored
\* difficulty
ReinsertCall ==
  /\ last.op = "add_checkpoint"
  /\ hex_to_pod(last.hash_str).r
  /\ last.height \in DOMAIN pre_points
  /\ pre_points[last.height] = LastHash
  /\ \/ last.difficulty_str = <<>>
     \/ /\ difficulty_type(last.difficulty_str).ok
        /\ last.height \in DOMAIN pre_difficulty_points
        /\ pre_difficulty_points[last.height] = difficulty_type(last.difficulty_str).difficulty

\* C8: add_checkpoint with an already stored (height, hash) pair returns
\* true and leaves m_points and m_difficulty_points as they were, and so does
\* every repetition of the call.
C8_ReinsertIdempotent ==
  ReinsertCall =>
    /\ last.ret = TRUE
    /\ StoreUnchanged
    /\ LET again == add_checkpoint(m_points, m_difficulty_points, last.height,
                                   last.hash_str, last.difficulty_str)
       IN /\ again.ret = TRUE
          /\ again.points = pre_points
          /\ again.difficulty_points = pre_difficulty_points

\* the stored hash given again, spelt in the other letter case
C8_Witness ==
  /\ ReinsertCall
  /\ last.ret = TRUE
  /\ last.hash_str = <<"0","A">>

\* the two-argument calls add_checkpoint(height, hash_str)
PairCalls == Heights \X HashStrs

\* the store after the call c on the store s
AfterCall(s, c) == add_checkpoint(s.points, s.difficulty_points, c[1], c[2], <<>>)

\* the call c does not disagree with the anchors p
Agrees(p, c) ==
  /\ hex_to_pod(c[2]).r
  /\ c[1] \in DOMAIN p => p[c[1]] = hex_to_pod(c[2]).h

\* C9: from one store, two add_checkpoint calls that agree with the store
\* and are for different heights, or for one height with the same hash, both
\* return true and give the same m_points in either order; two calls with
\* different hashes for one height the store does not have: the second
\* returns false and the hash of the first is kept.
C9_InsertCommutes ==
  (last.op = "add_checkpoint" /\ last.difficulty_str = <<>>) =>
    LET b == <<last.height, last.hash_str>>
        P == [points |-> pre_points, difficulty_points |-> pre_difficulty_points]
        Q == [points |-> m_points, difficulty_points |-> m_difficulty_points]
    IN \A a \in PairCalls :
         LET Pa == AfterCall(P, a)
             Pab == AfterCall(Pa, b)
             Pba == AfterCall(Q, a)
         IN
         /\ (/\ Agrees(pre_points, a) /\ Agrees(pre_points, b)
             /\ (a[1] # b[1] \/ hex_to_pod(a[2]).h = hex_to_pod(b[2]).h))
            => /\ last.ret = TRUE /\ Pba.ret = TRUE
               /\ Pa.ret = TRUE /\ Pab.ret = TRUE
               /\ Pab.points = Pba.points
         /\ (/\ hex_to_pod(a[2]).r /\ hex_to_pod(b[2]).r
             /\ a[1] = b[1] /\ a[1] \notin DOMAIN pre_points
             /\ hex_to_pod(a[2]).h # hex_to_pod(b[2]).h)
            => /\ last.ret = TRUE /\ Pba.ret = FALSE
               /\ Pba.points[b[1]] = hex_to_pod(b[2]).h
               /\ Pa.ret = TRUE /\ Pab.ret = FALSE
               /\ Pab.points[a[1]] = hex_to_pod(a[2]).h

\* a new height went in below an anchored one, and a height is still free
C9_Witness ==
  /\ last.op = "add_checkpoint"
  /\ last.difficulty_str = <<>>
  /\ last.ret = TRUE
  /\ last.height \notin DOMAIN pre_points
  /\ \E k \in DOMAIN pre_points : last.height < k
  /\ Heights \ DOMAIN m_points # {}

\* the watermark of the last load: the greatest key the store had, 0 for
\* the empty store
Watermark ==
  CHOOSE w \in {0} \cup DOMAIN pre_points : \A k \in DOMAIN pre_points : k <= w

\* the positions of the hashlines above the watermark
FreshLines ==
  {i \in 1..Len(last.file.hashlines) : last.file.hashlines[i][1] > Watermark}

\* C10: load_checkpoints_from_json takes the watermark once, from the store
\* it finds.  Records at or below it are skipped: nothing at or below the
\* watermark changes and they never fail the load, whatever their hash.
\* Records above it go through add_checkpoint in any order: the load fails
\* only on one of them (a hash that does not decode, or two hashes for one
\* height), and when it succeeds each of them is in m_points.  A file with
\* stale records only leaves the store unchanged and returns true.
C10_JsonWatermark ==
  (last.op = "load_checkpoints_from_json" /\ last.file.exists /\ last.file.loads) =>
    LET hl == last.file.hashlines
        w == Watermark
        fresh == {i \in 1..Len(hl) : hl[i][1] > w}
    IN
    /\ \A h \in Heights \cup DOMAIN pre_points \cup DOMAIN m_points :
         h <= w =>
           /\ h \in DOMAIN m_points <=> h \in DOMAIN pre_points
           /\ h \in DOMAIN pre_points => m_points[h] = pre_points[h]
    /\ last.ret <=>
         /\ \A i \in fresh : hex_to_pod(hl[i][2]).r
         /\ \A i, j \in fresh :
              hl[i][1] = hl[j][1] => hex_to_pod(hl[i][2]).h = hex_to_pod(hl[j][2]).h
    /\ last.ret =>
         /\ DOMAIN m_points = DOMAIN pre_points \cup {hl[i][1] : i \in fresh}
         /\ \A i \in fresh : m_points[hl[i][1]] = hex_to_pod(hl[i][2]).h
    /\ fresh = {} => (last.ret = TRUE /\ StoreUnchanged)
    /\ m_difficulty_points = pre_difficulty_points

\* two records above the watermark of a store that has an anchor, the
\* greater height first
C10_Witness ==
  /\ last.op = "load_checkpoints_from_json"
  /\ last.file.exists /\ last.file.loads
  /\ last.ret = TRUE
  /\ pre_points # EmptyMap
  /\ Len(last.file.hashlines) = 2
  /\ FreshLines = {1, 2}
  /\ last.file.hashlines[1][1] > last.file.hashlines[2][1]

\* the difficulty anchors a store with the hash anchors p may hold
DifficultyMapsOver(p) ==
  LET values == {difficulty_type(str).difficulty :
                   str \in {t \in DifficultyStrs : difficulty_type(t).ok}}
  IN UNION {[D -> values] : D \in SUBSET ((DOMAIN p) \cap Heights)}

MissingFile == [exists |-> FALSE, loads |-> FALSE, hashlines |-> <<>>]

NoAnswer == [ok |-> FALSE, records |-> <<>>]

\* C11: load_checkpoints_from_json with a path that does not exist returns
\* true, load_checkpoints_from_dns with no TXT records loaded returns true,
\* and neither changes m_points or m_difficulty_points, whatever anchors the
\* store holds; load_new_checkpoints over two absent sources does the same.
C11_AbsentSourceNoOp ==
  /\ (last.op = "load_checkpoints_from_json" /\ ~last.file.exists) =>
       (last.ret = TRUE /\ StoreUnchanged)
  /\ (last.op = "load_checkpoints_from_dns" /\ ~last.answer.ok) =>
       (last.ret = TRUE /\ StoreUnchanged)
  /\ (last.op = "load_new_checkpoints" /\ ~last.file.exists
        /\ (last.dns => ~last.answer.ok)) =>
       (last.ret = TRUE /\ StoreUnchanged)
  /\ last = Idle =>
       \A d \in DifficultyMapsOver(m_points) :
         /\ LET j == load_checkpoints_from_json(m_points, d, MissingFile)
            IN j.ret = TRUE /\ j.points = m_points /\ j.difficulty_points = d
         /\ \A nettype \in NetTypes :
              LET n == load_checkpoints_from_dns(m_points, d, nettype, NoAnswer)
              IN n.ret = TRUE /\ n.points = m_points /\ n.difficulty_points = d

\* no file and no DNS answer for a store that has anchors
C11_Witness ==
  /\ last.op = "load_new_checkpoints"
  /\ ~last.file.exists
  /\ last.dns
  /\ ~last.answer.ok
  /\ pre_points # EmptyMap
  /\ last.ret = TRUE

\* a TXT record with no colon, with no digit where the height starts, or
\* with something else than a hash in hex after the colon
MalformedRecord(record) ==
  \/ \A i \in 1..Len(record) : record[i] # ":"
  \/ ~IsDigit(record[1])
  \/ LET pos == find_colon(record)
     IN \/ Len(record) - pos # 2
        \/ \E i \in (pos + 1)..Len(record) : ~IsHexChar(record[i])

WellFormedRecord(record) == ~MalformedRecord(record)

\* C12: load_checkpoints_from_dns skips a malformed record on its own: the
\* store and the result after a batch are those after the same batch with
\* the malformed records taken out, and a batch of malformed records only
\* returns true and changes nothing.
C12_MalformedSkipped ==
  (last.op = "load_checkpoints_from_dns" /\ last.answer.ok) =>
    LET clean == SelectSeq(last.answer.records, WellFormedRecord)
        r == load_checkpoints_from_dns(pre_points, pre_difficulty_points, last.nettype,
                                       [ok |-> TRUE, records |-> clean])
    IN /\ r.ret = last.ret
       /\ r.points = m_points
       /\ r.difficulty_points = m_difficulty_points
       /\ clean = <<>> => (last.ret = TRUE /\ StoreUnchanged)

\* a malformed record first, then a record that went in
C12_Witness ==
  /\ last.op = "load_checkpoints_from_dns"
  /\ last.answer.ok
  /\ Len(last.answer.records) = 2
  /\ MalformedRecord(last.answer.records[1])
  /\ WellFormedRecord(last.answer.records[2])
  /\ m_points # pre_points
  /\ last.ret = TRUE

\* the file stage of the last load_new_checkpoints, and the DNS stage on
\* the store the file stage left
FileStageOfLast ==
  load_checkpoints_from_json(pre_points, pre_difficulty_points, last.file)

DnsStageOfLast ==
  load_checkpoints_from_dns(FileStageOfLast.points, FileStageOfLast.difficulty_points,
                            last.nettype, last.answer)

\* C13: load_new_checkpoints runs the file stage, then with dns the DNS
\* stage on the store the file stage left, also after a failed file stage;
\* it returns true exactly when the file stage did and, with dns, the DNS
\* stage did too.
C13_StagesComposed ==
  last.op = "load_new_checkpoints" =>
    /\ last.dns =>
         /\ m_points = DnsStageOfLast.points
         /\ m_difficulty_points = DnsStageOfLast.difficulty_points
         /\ last.ret = (FileStageOfLast.ret /\ DnsStageOfLast.ret)
    /\ ~last.dns =>
         /\ m_points = FileStageOfLast.points
         /\ m_difficulty_points = FileStageOfLast.difficulty_points
         /\ last.ret = FileStageOfLast.ret
    /\ ~FileStageOfLast.ret => last.ret = FALSE

\* the file stage failed and the DNS stage still put a record in
C13_Witness ==
  /\ last.op = "load_new_checkpoints"
  /\ last.dns
  /\ ~FileStageOfLast.ret
  /\ DnsStageOfLast.ret
  /\ m_points # FileStageOfLast.points
  /\ last.ret = FALSE

\* the last call was a loader that went through its records
BatchLoaded ==
  \/ last.op = "load_checkpoints_from_json" /\ last.file.exists /\ last.file.loads
  \/ last.op = "load_checkpoints_from_dns" /\ last.answer.ok

AboveWatermark(hashline) == hashline[1] > Watermark

\* the height and the hash string of a well-formed TXT record
RecordPair(record) ==
  LET pos == find_colon(record)
  IN <<DecimalValue(SubSeq(record, 1, pos - 1)), SubSeq(record, pos + 1, Len(record))>>

\* the <<height, hash string>> pairs the last loader handed to
\* ADD_CHECKPOINT or would have, in the order of the batch
Attempts ==
  IF last.op = "load_checkpoints_from_json"
  THEN SelectSeq(last.file.hashlines, AboveWatermark)
  ELSE LET clean == SelectSeq(last.answer.records, WellFormedRecord)
       IN [i \in 1..Len(clean) |-> RecordPair(clean[i])]

\* the attempt i cannot go in: its hash does not decode, or its height has
\* another hash in the store the loader found or in an earlier attempt
Refused(att, i) ==
  \/ ~hex_to_pod(att[i][2]).r
  \/ att[i][1] \in DOMAIN pre_points /\ pre_points[att[i][1]] # hex_to_pod(att[i][2]).h
  \/ \E j \in 1..(i - 1) :
       att[j][1] = att[i][1] /\ hex_to_pod(att[j][2]).h # hex_to_pod(att[i][2]).h

\* C19: in load_checkpoints_from_json and load_checkpoints_from_dns the
\* first record that add_checkpoint refuses ends the stage with false: the
\* records before it are in the store, the refused record changes nothing,
\* and no record after it is inserted, valid and free of conflict or not.
C19_FirstFailureEndsStage ==
  BatchLoaded =>
    LET att == Attempts
        refused == {i \in 1..Len(att) : Refused(att, i)}
    IN
    /\ last.ret = (refused = {})
    /\ refused # {} =>
         LET k == CHOOSE i \in refused : \A j \in refused : i <= j IN
         /\ DOMAIN m_points = DOMAIN pre_points \cup {att[i][1] : i \in 1..(k - 1)}
         /\ \A i \in 1..(k - 1) : m_points[att[i][1]] = hex_to_pod(att[i][2]).h
         /\ \A h \in DOMAIN pre_points : m_points[h] = pre_points[h]
         /\ \A i \in (k + 1)..Len(att) :
              (/\ att[i][1] \notin DOMAIN pre_points
               /\ \A j \in 1..(k - 1) : att[j][1] # att[i][1])
              => att[i][1] \notin DOMAIN m_points

\* the first record is refused; the second is well-formed, for a height the
\* store does not have, and stays out
C19_Witness ==
  /\ BatchLoaded
  /\ last.ret = FALSE
  /\ Len(Attempts) = 2
  /\ Refused(Attempts, 1)
  /\ hex_to_pod(Attempts[2][2]).r
  /\ Attempts[2][1] # Attempts[1][1]
  /\ Attempts[2][1] \notin DOMAIN pre_points
  /\ Attempts[2][1] \notin DOMAIN m_points

\* the difficulty a well-formed difficulty string of the last call stands for
LastDifficulty == difficulty_type(last.difficulty_str).difficulty

\* the last call was add_checkpoint with a hash and a difficulty that both
\* parse
ParsedDifficultyCall ==
  /\ last.op = "add_checkpoint"
  /\ hex_to_pod(last.hash_str).r
  /\ Len(last.difficulty_str) > 0
  /\ difficulty_type(last.difficulty_str).ok

\* C14: add_checkpoint with a difficulty for a height that has a difficulty
\* anchor succeeds only if the difficulty is the stored one; with another
\* difficulty and the stored hash it returns false, and m_difficulty_points
\* keeps the original difficulty.
C14_DifficultyConflictRejected ==
  (ParsedDifficultyCall /\ last.height \in DOMAIN pre_difficulty_points) =>
    /\ last.ret = TRUE => LastDifficulty = pre_difficulty_points[last.height]
    /\ (last.height \in DOMAIN pre_points /\ pre_points[last.height] = LastHash) =>
         (last.ret <=> (LastDifficulty = pre_difficulty_points[last.height]))
    /\ last.height \in DOMAIN m_difficulty_points
    /\ m_difficulty_points[last.height] = pre_difficulty_points[last.height]
    /\ m_difficulty_points = pre_difficulty_points

\* the stored hash with another difficulty than the stored one
C14_Witness ==
  /\ ParsedDifficultyCall
  /\ last.height \in DOMAIN pre_difficulty_points
  /\ pre_points[last.height] = LastHash
  /\ LastDifficulty # pre_difficulty_points[last.height]
  /\ last.ret = FALSE

\* C15 as stated: a call whose hash conflicts with the stored hash still has
\* its difficulty handled: compared with the difficulty anchor of the
\* height, or recorded when the height has none.
C15_DifficultyDespiteHashConflict ==
  (HashConflictCall /\ ParsedDifficultyCall) =>
    IF last.height \in DOMAIN pre_difficulty_points
    THEN m_difficulty_points = pre_difficulty_points
    ELSE /\ last.height \in DOMAIN m_difficulty_points
         /\ m_difficulty_points[last.height] = LastDifficulty

\* C15 amended: the difficulty rule is applied only after the hash check has
\* passed.  A call whose hash conflicts returns false with its difficulty
\* neither compared nor recorded; a call whose hash is accepted succeeds
\* exactly when the height has no difficulty anchor or the same one, and
\* then the difficulty is the anchor of the height.
C15_DifficultyAfterHashCheck ==
  /\ HashConflictCall =>
       (last.ret = FALSE /\ m_difficulty_points = pre_difficulty_points)
  /\ (ParsedDifficultyCall /\ ~HashConflictCall) =>
       /\ last.ret <=> \/ last.height \notin DOMAIN pre_difficulty_points
                       \/ pre_difficulty_points[last.height] = LastDifficulty
       /\ last.ret => /\ last.height \in DOMAIN m_difficulty_points
                      /\ m_difficulty_points[last.height] = LastDifficulty

\* a conflicting hash with a difficulty for a height that has no difficulty
\* anchor
C15_Witness ==
  /\ HashConflictCall
  /\ ParsedDifficultyCall
  /\ last.height \notin DOMAIN pre_difficulty_points
  /\ last.ret = FALSE

\* C16: the keys of m_difficulty_points are keys of m_points: no height has
\* a difficulty anchor without a hash anchor.
C16_DifficultyKeysAreHashKeys ==
  (DOMAIN m_difficulty_points) \subseteq (DOMAIN m_points)

\* a hash string that does not decode came with a difficulty for a height
\* the store does not have, beside a height that has both anchors
C16_Witness ==
  /\ last.op = "add_checkpoint"
  /\ ~hex_to_pod(last.hash_str).r
  /\ difficulty_type(last.difficulty_str).ok
  /\ last.height \notin DOMAIN m_points
  /\ m_difficulty_points # EmptyMap
  /\ DOMAIN m_difficulty_points # DOMAIN m_points

\* C18: whenever add_checkpoint returns false, whatever the cause, m_points
\* and m_difficulty_points are as they were before the call.
C18_FailureLeavesStore ==
  (last.op = "add_checkpoint" /\ last.ret = FALSE) => StoreUnchanged

\* C20: check_for_conflicts(other) returns true exactly when every height
\* that is in both stores' hash anchors has the same hash in both; heights
\* in one store only and the difficulty anchors have no part in it.
C20_ConflictsOnSharedHeights ==
  last.op = "check_for_conflicts" =>
    (last.ret <=>
       \A h \in (DOMAIN last.other) \cap (DOMAIN m_points) : last.other[h] = m_points[h])

\* a shared height that agrees, a height of other only, a height of this
\* store only, and a difficulty anchor in this store
C20_Witness ==
  /\ last.op = "check_for_conflicts"
  /\ last.ret = TRUE
  /\ (DOMAIN last.other) \cap (DOMAIN m_points) # {}
  /\ (DOMAIN last.other) \ (DOMAIN m_points) # {}
  /\ (DOMAIN m_points) \ (DOMAIN last.other) # {}
  /\ m_difficulty_points # EmptyMap

\* the four queries of the store
QueryOps ==
  {"is_in_checkpoint_zone", "check_block", "is_alternative_block_allowed", "get_max_height"}

\* C17: while a reload is under way (load_new_checkpoints calling
\* add_checkpoint) the mutation holds an exclusive lock and the queries a
\* shared one, so that no query executes while a reload is inside the store:
\* every query runs with the reloading thread outside
\* load_checkpoints_from_json.
C17_QueriesExcludeReload ==
  last.op \in QueryOps => last.reload_pc = "none"

\* a query that ran while m_points[height] was being assigned and read the
\* map without the new checkpoint
C17_QueryDuringInsert ==
  /\ last.op = "check_block"
  /\ last.reload_pc = "insert"
  /\ last.is_a_checkpoint = FALSE
  /\ reload.pc = "loop"
  /\ last.height \in DOMAIN m_points

=============================================================================
